---- MODULE Spec2Model ----
(***************************************************************************)
(* Vehicle emission testing (src/Vehicle_emission_testing.cpp).            *)
(*                                                                         *)
(* Two specifications over one set of variables:                           *)
(*   Spec     the program: main builds a fleet, starts one runTest thread  *)
(*            per vehicle, joins them all and then serves the menu;        *)
(*   SpecApi  one EmissionTest record driven by a client that calls        *)
(*            performTest any number of times with any vehicle and limit.  *)
(*                                                                         *)
(* Numbers.  The program computes with doubles.  Engine sizes are drawn    *)
(* from multiples of 10 for which the IEEE product engineSize * 0.1 is the *)
(* exact integer engineSize / 10 (-50, 1500, 1800, 2000 give -5, 150, 180, *)
(* 200), so emission levels and limits are modelled as integers.           *)
(*                                                                         *)
(* Strings are sequences of one-character strings.                         *)
(***************************************************************************)
EXTENDS Integers, Sequences, FiniteSets, TLC

\* ------------------------------------------------------------------ bounds

\* longest fleet drawn in Init besides the fleet of main
MaxFleet == 2
\* performTest calls the client of SpecApi makes on its record
MaxCalls == 3

\* engine sizes (cc) and battery capacities (kWh) vehicles are drawn from
GasSizes == {-50, 1500, 1800, 2000}
Capacities == {-10, 0, 50}
\* legal limits a run is drawn from
LegalLimits == {-1, 0, 180}

\* ------------------------------------------------------- emission strategies

\* variant of GasEmission: the factor 0.1 is left out
GasEmissionUnscaled(engineSize) == engineSize

\* GasEmissionStrategy::calculateEmission: engineSize * 0.1
GasEmission(engineSize) == (engineSize * 1) \div 10

\* variant of ElectricEmission: the capacity is scaled as an engine size is
ElectricEmissionScaled(batteryCapacity) == (batteryCapacity * 1) \div 10

\* ElectricEmissionStrategy::calculateEmission: 0 whatever the capacity
ElectricEmission(batteryCapacity) == 0

\* virtual dispatch of EmissionStrategy::calculateEmission
calculateEmission(strategy, parameter) ==
    IF strategy = "GasEmissionStrategy"
    THEN GasEmission(parameter)
    ELSE ElectricEmission(parameter)

\* GasVehicle / ElectricVehicle: the type, its parameter (engineSize or
\* batteryCapacity) and the strategy handed to the constructor
GasVehicle(size) ==
    [type |-> "Gas", param |-> size, strategy |-> "GasEmissionStrategy"]

ElectricVehicle(capacity) ==
    [type |-> "Electric", param |-> capacity,
     strategy |-> "ElectricEmissionStrategy"]

\* GasVehicle::getEmissionLevel and ElectricVehicle::getEmissionLevel both
\* delegate to the strategy with the stored parameter
getEmissionLevel(vehicle) == calculateEmission(vehicle.strategy, vehicle.param)

VehicleKinds ==
    {GasVehicle(s) : s \in GasSizes} \cup {ElectricVehicle(c) : c \in Capacities}

\* no vehicle: the value of a thread's vehicle argument before the thread exists
NoVehicle == [type |-> "none", param |-> 0, strategy |-> "none"]

\* the fleet and the limit main builds
MainFleet == <<GasVehicle(2000), ElectricVehicle(50), GasVehicle(1500)>>
MainLegalLimit == 180

Fleets == {MainFleet} \cup UNION {[1..n -> VehicleKinds] : n \in 0..MaxFleet}

\* ------------------------------------------------------------------ strings

Prefix == <<"V", "e", "h", "i", "c", "l", "e", "_">>

Digit(d) == CASE d = 0 -> "0" [] d = 1 -> "1" [] d = 2 -> "2" [] d = 3 -> "3"
              [] d = 4 -> "4" [] d = 5 -> "5" [] d = 6 -> "6" [] d = 7 -> "7"
              [] d = 8 -> "8" [] d = 9 -> "9"

\* std::to_string of a non-negative int
RECURSIVE to_string(_)
to_string(n) ==
    IF n < 10 THEN <<Digit(n)>> ELSE to_string(n \div 10) \o <<Digit(n % 10)>>

\* variant of MakeId: the counter is incremented before it is used
MakeIdPreIncrement(n) == Prefix \o to_string(n + 1)

\* "Vehicle_" + std::to_string(vehicleID)
MakeId(n) == Prefix \o to_string(n)

\* ------------------------------------------------------------------- state

VARIABLES
    vehicles,          \* main: the fleet
    legalLimit,        \* main: the legal limit
    vehicleID,         \* main: the counter of the spawn loop
    testThreads,       \* main: the threads started so far
    joined,            \* main: how many threads the join loop has joined
    mainpc,            \* main: "spawn", "join", "menu", "exit", "terminated"
    out,               \* main: what the last menu command printed
    pc,                \* thread: position in runTest
    tVehicle,          \* thread: the vehicle argument of performTest
    tId,               \* thread: the id argument of runTest
    tLimit,            \* thread: the legalLimit argument of performTest
    state,             \* EmissionTest::state of the thread's record
    complianceStatus,  \* EmissionTest::complianceStatus of the thread's record
    emissionLevel,     \* the local emissionLevel of InProgressState::handleTest
    raised,            \* the exception performTest threw, "none" if none
    reported,          \* what runTest's catch handler wrote to std::cerr
    snapshot,          \* the map as read by the thread's insert in progress
    testResults,       \* the shared registry
    resultMutex,       \* 0 when free, else the thread holding it
    evalCount,         \* history: evaluations of getEmissionLevel per record
    setCount,          \* history: calls of setComplianceStatus per record
    alreadyCompleted,  \* history: "is already completed" reports per record
    calls              \* SpecApi: performTest calls made by the client

mainVars == <<vehicles, legalLimit, vehicleID, testThreads, joined, mainpc, out>>
argVars == <<tVehicle, tId, tLimit>>
recVars == <<state, complianceStatus, emissionLevel, evalCount, setCount,
             alreadyCompleted>>
regVars == <<snapshot, testResults, resultMutex>>
vars == <<vehicles, legalLimit, vehicleID, testThreads, joined, mainpc, out,
          pc, tVehicle, tId, tLimit, state, complianceStatus, emissionLevel,
          raised, reported, snapshot, testResults, resultMutex, evalCount,
          setCount, alreadyCompleted, calls>>

Threads == DOMAIN pc

EmptyMap == [k \in {} |-> FALSE]

\* std::unordered_map::operator[] followed by assignment
Put(m, k, v) == [x \in (DOMAIN m) \cup {k} |-> IF x = k THEN v ELSE m[x]]

NoOutput == [cmd |-> "none", shown |-> EmptyMap]

\* the state before any thread or record exists, for the thread ids T
InitThreads(T) ==
    /\ pc = [t \in T |-> "unborn"]
    /\ tVehicle = [t \in T |-> NoVehicle]
    /\ tId = [t \in T |-> <<>>]
    /\ tLimit = [t \in T |-> 0]
    /\ state = [t \in T |-> "none"]
    /\ complianceStatus = [t \in T |-> FALSE]
    /\ emissionLevel = [t \in T |-> 0]
    /\ raised = [t \in T |-> "none"]
    /\ reported = [t \in T |-> "none"]
    /\ snapshot = [t \in T |-> EmptyMap]
    /\ evalCount = [t \in T |-> 0]
    /\ setCount = [t \in T |-> 0]
    /\ alreadyCompleted = [t \in T |-> 0]

\* main before the spawn loop: the fleet and the limit are built, the
\* registry is empty and the mutex free
Init ==
    /\ vehicles \in Fleets
    /\ legalLimit \in LegalLimits
    /\ vehicleID = 1
    /\ testThreads = <<>>
    /\ joined = 0
    /\ mainpc = "spawn"
    /\ out = NoOutput
    /\ InitThreads(1..Len(vehicles))
    /\ testResults = EmptyMap
    /\ resultMutex = 0
    /\ calls = 0

\* ----------------------------------------------------- the test state machine

\* EmissionTest::EmissionTest: the record starts in the state it is given
\* (runTest gives PendingState) with complianceStatus false
NewEmissionTest(t) ==
    /\ state' = [state EXCEPT ![t] = "Pending"]
    /\ complianceStatus' = [complianceStatus EXCEPT ![t] = FALSE]

\* variant of PendingNext: the pending handler completes the record itself
PendingSkips == "Completed"

\* the state PendingState::handleTest moves the record to
PendingNext == "InProgress"

\* variant of PendingHandle: the handler returns after setState without
\* calling performTest again
PendingReturnsEarly(t) ==
    /\ pc[t] = "perform"
    /\ state[t] = "Pending"
    /\ state' = [state EXCEPT ![t] = PendingNext]
    /\ pc' = [pc EXCEPT ![t] = "returned"]
    /\ UNCHANGED <<mainVars, argVars, regVars, complianceStatus,
                   emissionLevel, raised, reported, evalCount, setCount,
                   alreadyCompleted, calls>>

\* PendingState::handleTest: setState(InProgressState), then performTest
\* again on the same record with the same arguments
PendingHandle(t) ==
    /\ pc[t] = "perform"
    /\ state[t] = "Pending"
    /\ state' = [state EXCEPT ![t] = PendingNext]
    /\ UNCHANGED <<mainVars, argVars, regVars, pc, complianceStatus,
                   emissionLevel, raised, reported, evalCount, setCount,
                   alreadyCompleted, calls>>

\* variant of IsInvalid: no emission level is rejected
NeverInvalid(level) == FALSE

\* the test of InProgressState::handleTest that throws std::invalid_argument
IsInvalid(level) == level < 0

\* variant of Complies: the boundary fails
CompliesStrict(level, limit) == level < limit

\* the verdict of InProgressState::handleTest
Complies(level, limit) == level <= limit

\* variant of Evaluate: the verdict is stored before the level is validated
EvaluateStoresFirst(t) ==
    LET level == getEmissionLevel(tVehicle[t]) IN
        /\ emissionLevel' = [emissionLevel EXCEPT ![t] = level]
        /\ evalCount' = [evalCount EXCEPT ![t] = @ + 1]
        /\ complianceStatus' =
               [complianceStatus EXCEPT ![t] = Complies(level, tLimit[t])]
        /\ setCount' = [setCount EXCEPT ![t] = @ + 1]
        /\ IF IsInvalid(level)
           THEN /\ raised' = [raised EXCEPT ![t] = "invalid_argument"]
                /\ pc' = [pc EXCEPT ![t] = "thrown"]
                /\ UNCHANGED state
           ELSE /\ state' = [state EXCEPT ![t] = "Completed"]
                /\ pc' = [pc EXCEPT ![t] = "returned"]
                /\ UNCHANGED raised

\* the body of InProgressState::handleTest: evaluate the emission level;
\* throw when it is negative, else store the verdict and move to
\* CompletedState
Evaluate(t) ==
    LET level == getEmissionLevel(tVehicle[t]) IN
        /\ emissionLevel' = [emissionLevel EXCEPT ![t] = level]
        /\ evalCount' = [evalCount EXCEPT ![t] = @ + 1]
        /\ IF IsInvalid(level)
           THEN /\ raised' = [raised EXCEPT ![t] = "invalid_argument"]
                /\ pc' = [pc EXCEPT ![t] = "thrown"]
                /\ UNCHANGED <<state, complianceStatus, setCount>>
           ELSE /\ complianceStatus' =
                       [complianceStatus EXCEPT ![t] = Complies(level, tLimit[t])]
                /\ setCount' = [setCount EXCEPT ![t] = @ + 1]
                /\ state' = [state EXCEPT ![t] = "Completed"]
                /\ pc' = [pc EXCEPT ![t] = "returned"]
                /\ UNCHANGED raised

\* InProgressState::handleTest, reached by performTest's dispatch on a record
\* in InProgressState
InProgressHandle(t) ==
    /\ pc[t] = "perform"
    /\ state[t] = "InProgress"
    /\ Evaluate(t)
    /\ UNCHANGED <<mainVars, argVars, regVars, reported, alreadyCompleted, calls>>

\* variant of CompletedHandle: a completed record is evaluated again
CompletedRecomputes(t) ==
    /\ pc[t] = "perform"
    /\ state[t] = "Completed"
    /\ Evaluate(t)
    /\ UNCHANGED <<mainVars, argVars, regVars, reported, alreadyCompleted, calls>>

\* CompletedState::handleTest: report "already completed" and return
CompletedHandle(t) ==
    /\ pc[t] = "perform"
    /\ state[t] = "Completed"
    /\ alreadyCompleted' = [alreadyCompleted EXCEPT ![t] = @ + 1]
    /\ pc' = [pc EXCEPT ![t] = "returned"]
    /\ UNCHANGED <<mainVars, argVars, regVars, state, complianceStatus,
                   emissionLevel, raised, reported, evalCount, setCount, calls>>

\* ------------------------------------------------------------------ runTest

\* runTest: make the record in PendingState and call performTest on it
RunTestBegin(t) ==
    /\ pc[t] = "start"
    /\ NewEmissionTest(t)
    /\ pc' = [pc EXCEPT ![t] = "perform"]
    /\ UNCHANGED <<mainVars, argVars, regVars, emissionLevel, raised, reported,
                   evalCount, setCount, alreadyCompleted, calls>>

\* variant of CanLock: the lock never blocks
LockAlwaysFree(t) == TRUE

\* std::mutex::lock blocks until the mutex is free
CanLock(t) == resultMutex = 0

\* variant of Lock: the guard is an unnamed temporary, std::lock_guard<...>(m),
\* which takes the mutex and gives it back before the insert
LockTemporary(t) ==
    /\ pc[t] = "returned"
    /\ CanLock(t)
    /\ pc' = [pc EXCEPT ![t] = "locked"]
    /\ UNCHANGED <<mainVars, argVars, recVars, regVars, raised, reported, calls>>

\* runTest: std::lock_guard<std::mutex> lock(resultMutex)
Lock(t) ==
    /\ pc[t] = "returned"
    /\ CanLock(t)
    /\ resultMutex' = t
    /\ pc' = [pc EXCEPT ![t] = "locked"]
    /\ UNCHANGED <<mainVars, argVars, recVars, raised, reported, snapshot,
                   testResults, calls>>

\* runTest: testResults[id] = ..., first half: the insert reads the map
InsertRead(t) ==
    /\ pc[t] = "locked"
    /\ snapshot' = [snapshot EXCEPT ![t] = testResults]
    /\ pc' = [pc EXCEPT ![t] = "insert"]
    /\ UNCHANGED <<mainVars, argVars, recVars, raised, reported, testResults,
                   resultMutex, calls>>

\* runTest: testResults[id] = test->getComplianceStatus(), second half: the
\* map it read, with the entry, becomes the map
InsertWrite(t) ==
    /\ pc[t] = "insert"
    /\ testResults' = Put(snapshot[t], tId[t], complianceStatus[t])
    /\ snapshot' = [snapshot EXCEPT ![t] = EmptyMap]
    /\ pc' = [pc EXCEPT ![t] = "unlock"]
    /\ UNCHANGED <<mainVars, argVars, recVars, raised, reported, resultMutex,
                   calls>>

\* variant of Unlock: the mutex was locked by hand and is never unlocked
UnlockForgets(t) ==
    /\ pc[t] = "unlock"
    /\ pc' = [pc EXCEPT ![t] = "done"]
    /\ UNCHANGED <<mainVars, argVars, recVars, regVars, raised, reported, calls>>

\* runTest: the lock_guard goes out of scope at the end of the try block and
\* the thread function returns
Unlock(t) ==
    /\ pc[t] = "unlock"
    /\ resultMutex' = 0
    /\ pc' = [pc EXCEPT ![t] = "done"]
    /\ UNCHANGED <<mainVars, argVars, recVars, raised, reported, snapshot,
                   testResults, calls>>

\* the handler of runTest that takes an exception of the given type: the
\* first catch clause takes std::invalid_argument, the second any other
\* std::exception
HandlerFor(exception) ==
    IF exception = "invalid_argument" THEN "Invalid argument" ELSE "Error"

\* variant of Catch: the handler records the failed test as non-compliant
CatchStoresFalse(t) ==
    /\ pc[t] = "thrown"
    /\ reported' = [reported EXCEPT ![t] = HandlerFor(raised[t])]
    /\ testResults' = Put(testResults, tId[t], FALSE)
    /\ pc' = [pc EXCEPT ![t] = "done"]
    /\ UNCHANGED <<mainVars, argVars, recVars, snapshot, resultMutex, raised,
                   calls>>

\* variant of Catch: no handler takes the exception, it leaves the thread
\* function and std::terminate ends the process
CatchMissing(t) ==
    /\ pc[t] = "thrown"
    /\ mainpc' = "exit"
    /\ UNCHANGED <<vehicles, legalLimit, vehicleID, testThreads, joined, out,
                   pc, argVars, recVars, regVars, raised, reported, calls>>

\* runTest: the exception of performTest is caught, reported on std::cerr
\* and the thread function returns
Catch(t) ==
    /\ pc[t] = "thrown"
    /\ reported' = [reported EXCEPT ![t] = HandlerFor(raised[t])]
    /\ pc' = [pc EXCEPT ![t] = "done"]
    /\ UNCHANGED <<mainVars, argVars, recVars, regVars, raised, calls>>

\* --------------------------------------------------------------------- main

\* main: testThreads.emplace_back(runTest, vehicle, "Vehicle_" + id, legalLimit)
\* for the next vehicle of the fleet; the thread holds copies of its arguments
Spawn ==
    /\ mainpc = "spawn"
    /\ Len(testThreads) < Len(vehicles)
    /\ LET t == Len(testThreads) + 1 IN
        /\ pc' = [pc EXCEPT ![t] = "start"]
        /\ tVehicle' = [tVehicle EXCEPT ![t] = vehicles[t]]
        /\ tId' = [tId EXCEPT ![t] = MakeId(vehicleID)]
        /\ tLimit' = [tLimit EXCEPT ![t] = legalLimit]
        /\ testThreads' = Append(testThreads, t)
    /\ vehicleID' = vehicleID + 1
    /\ UNCHANGED <<vehicles, legalLimit, joined, mainpc, out, recVars, regVars,
                   raised, reported, calls>>

\* main: the spawn loop ends
SpawnDone ==
    /\ mainpc = "spawn"
    /\ Len(testThreads) = Len(vehicles)
    /\ mainpc' = "join"
    /\ UNCHANGED <<vehicles, legalLimit, vehicleID, testThreads, joined, out,
                   pc, argVars, recVars, regVars, raised, reported, calls>>

\* variant of Joinable: join does not wait (the thread is detached)
JoinableAlways(t) == TRUE

\* std::thread::join returns once the thread function has returned
Joinable(t) == pc[t] = "done"

\* main: thread.join() for the next thread
Join ==
    /\ mainpc = "join"
    /\ joined < Len(testThreads)
    /\ Joinable(testThreads[joined + 1])
    /\ joined' = joined + 1
    /\ UNCHANGED <<vehicles, legalLimit, vehicleID, testThreads, mainpc, out,
                   pc, argVars, recVars, regVars, raised, reported, calls>>

\* main: the join loop ends and the menu starts
JoinDone ==
    /\ mainpc = "join"
    /\ joined = Len(testThreads)
    /\ mainpc' = "menu"
    /\ UNCHANGED <<vehicles, legalLimit, vehicleID, testThreads, joined, out,
                   pc, argVars, recVars, regVars, raised, reported, calls>>

\* main, choice 1: print every entry of testResults
ViewResults ==
    /\ mainpc = "menu"
    /\ out' = [cmd |-> "view", shown |-> testResults]
    /\ UNCHANGED <<vehicles, legalLimit, vehicleID, testThreads, joined, mainpc,
                   pc, argVars, recVars, regVars, raised, reported, calls>>

\* main, a choice other than 1, 2, 3: "Invalid choice. Please try again."
InvalidChoice ==
    /\ mainpc = "menu"
    /\ out' = [cmd |-> "invalid choice", shown |-> EmptyMap]
    /\ UNCHANGED <<vehicles, legalLimit, vehicleID, testThreads, joined, mainpc,
                   pc, argVars, recVars, regVars, raised, reported, calls>>

\* main, choice 3: leave the menu loop
Exit ==
    /\ mainpc = "menu"
    /\ mainpc' = "exit"
    /\ UNCHANGED <<vehicles, legalLimit, vehicleID, testThreads, joined, out,
                   pc, argVars, recVars, regVars, raised, reported, calls>>

\* int is 32 bits wide
IntMax == 2147483647
IntMin == (-IntMax) - 1

IsDigit(c) == c \in {"0", "1", "2", "3", "4", "5", "6", "7", "8", "9"}

DigitValue(c) == CASE c = "0" -> 0 [] c = "1" -> 1 [] c = "2" -> 2 [] c = "3" -> 3
                   [] c = "4" -> 4 [] c = "5" -> 5 [] c = "6" -> 6 [] c = "7" -> 7
                   [] c = "8" -> 8 [] c = "9" -> 9

\* std::string::substr(pos): the characters from pos on; throws
\* std::out_of_range when pos is beyond the end of the string
substr(s, pos) ==
    IF pos > Len(s)
    THEN [ok |-> FALSE, what |-> "out_of_range"]
    ELSE [ok |-> TRUE, value |-> SubSeq(s, pos + 1, Len(s))]

\* the digits a string starts with
RECURSIVE TakeDigits(_)
TakeDigits(s) ==
    IF s = <<>> \/ ~IsDigit(Head(s))
    THEN <<>>
    ELSE <<Head(s)>> \o TakeDigits(Tail(s))

\* the negated value of a digit string added to acc (<= 0), or 1 when the
\* value leaves the range of int
RECURSIVE NegValue(_, _)
NegValue(ds, acc) ==
    IF ds = <<>> THEN acc
    ELSE LET d == DigitValue(Head(ds)) IN
         IF (-acc) > IntMax \div 10
              \/ ((-acc) = IntMax \div 10 /\ d > (IntMax % 10) + 1)
         THEN 1
         ELSE NegValue(Tail(ds), (acc * 10) - d)

\* std::stoi: an optional sign, then the digits the string starts with, what
\* follows them being ignored; throws std::invalid_argument when there is no
\* digit and std::out_of_range when the value is no int.  (Leading white
\* space, which stoi skips, cannot occur in a token read by std::cin >>.)
stoi(s) ==
    LET signed == s # <<>> /\ Head(s) \in {"+", "-"}
        neg == s # <<>> /\ Head(s) = "-"
        ds == TakeDigits(IF signed THEN Tail(s) ELSE s)
        n == NegValue(ds, 0)
    IN  IF ds = <<>> THEN [ok |-> FALSE, what |-> "invalid_argument"]
        ELSE IF n = 1 \/ (~neg /\ n = IntMin)
        THEN [ok |-> FALSE, what |-> "out_of_range"]
        ELSE [ok |-> TRUE, value |-> IF neg THEN n ELSE -n]

\* the result of the int subtraction stoi(...) - 1; at INT_MIN it overflows,
\* which is undefined: the build either wraps or traps
MinusOne(v) ==
    IF v = IntMin
    THEN {[ok |-> TRUE, value |-> IntMax], [ok |-> FALSE, what |-> "overflow trap"]}
    ELSE {[ok |-> TRUE, value |-> v - 1]}

\* the identifiers typed at the prompt of choice 2
Inputs ==
    {Prefix \o <<"1">>, Prefix \o <<"2">>, Prefix \o <<"3">>,
     Prefix \o <<"0">>, Prefix \o <<"9">>, Prefix \o <<"-", "1">>,
     Prefix \o <<"2", "1", "4", "7", "4", "8", "3", "6", "4", "8">>,
     Prefix, Prefix \o <<"x">>, Prefix \o <<"1", "x">>,
     <<"V", "e", "h">>,
     <<"M", "o", "t", "o", "r", "b", "i", "k", "1">>}

\* main, choice 2: index = std::stoi(inputID.substr(8)) - 1, then the details
\* of vehicles[index] or "Invalid Vehicle ID."; main has no handler, so an
\* exception of substr or stoi ends the process through std::terminate
CheckDetails ==
    /\ mainpc = "menu"
    /\ \E inputID \in Inputs :
        LET sub == substr(inputID, 8)
            num == IF sub.ok THEN stoi(sub.value) ELSE sub
        IN  \E index \in (IF num.ok THEN MinusOne(num.value) ELSE {num}) :
                IF ~index.ok
                THEN /\ mainpc' = "terminated"
                     /\ out' = [cmd |-> "terminate", shown |-> EmptyMap,
                                input |-> inputID, what |-> index.what]
                ELSE /\ mainpc' = mainpc
                     /\ out' =
                          IF index.value >= 0 /\ index.value < Len(vehicles)
                          THEN [cmd |-> "details", shown |-> EmptyMap,
                                input |-> inputID,
                                position |-> index.value + 1,
                                vehicle |-> vehicles[index.value + 1]]
                          ELSE [cmd |-> "Invalid Vehicle ID.",
                                shown |-> EmptyMap, input |-> inputID]
    /\ UNCHANGED <<vehicles, legalLimit, vehicleID, testThreads, joined,
                   pc, argVars, recVars, regVars, raised, reported, calls>>

Next ==
    \/ Spawn
    \/ SpawnDone
    \/ Join
    \/ JoinDone
    \/ ViewResults
    \/ CheckDetails
    \/ InvalidChoice
    \/ Exit
    \/ \E t \in Threads : RunTestBegin(t)
    \/ \E t \in Threads : PendingHandle(t)
    \/ \E t \in Threads : InProgressHandle(t)
    \/ \E t \in Threads : Lock(t)
    \/ \E t \in Threads : InsertRead(t)
    \/ \E t \in Threads : InsertWrite(t)
    \/ \E t \in Threads : Unlock(t)
    \/ \E t \in Threads : Catch(t)

Spec == Init /\ [][Next]_vars

\* a step of the runTest thread t
ThreadNext(t) ==
    \/ RunTestBegin(t)
    \/ PendingHandle(t)
    \/ InProgressHandle(t)
    \/ Lock(t)
    \/ InsertRead(t)
    \/ InsertWrite(t)
    \/ Unlock(t)
    \/ Catch(t)

\* a step of main before the menu, where main waits for no input
MainProgress == Spawn \/ SpawnDone \/ Join \/ JoinDone

\* the operating system keeps scheduling some thread that can run, be it a
\* runTest thread or main, until main waits for input at the menu
Fairness == WF_vars(MainProgress \/ \E t \in Threads : ThreadNext(t))

SpecFair == Spec /\ Fairness

\* ------------------------------------------------- one record and its client

\* one record, not yet constructed, held by a client
InitApi ==
    /\ vehicles = <<>>
    /\ legalLimit = MainLegalLimit
    /\ vehicleID = 1
    /\ testThreads = <<>>
    /\ joined = 0
    /\ mainpc = "client"
    /\ out = NoOutput
    /\ InitThreads({1})
    /\ testResults = EmptyMap
    /\ resultMutex = 0
    /\ calls = 0

\* the client makes the record as runTest does:
\* std::make_shared<EmissionTest>(id, std::make_shared<PendingState>())
ApiConstruct(t) ==
    /\ pc[t] = "unborn"
    /\ NewEmissionTest(t)
    /\ tId' = [tId EXCEPT ![t] = MakeId(t)]
    /\ pc' = [pc EXCEPT ![t] = "idle"]
    /\ UNCHANGED <<mainVars, tVehicle, tLimit, regVars, emissionLevel, raised,
                   reported, evalCount, setCount, alreadyCompleted, calls>>

\* EmissionTest::performTest called by the client, after construction or
\* after an earlier call returned or threw, with any vehicle and any limit
ApiCall(t) ==
    /\ pc[t] \in {"idle", "returned", "thrown"}
    /\ calls < MaxCalls
    /\ \E v \in VehicleKinds, l \in LegalLimits :
        /\ tVehicle' = [tVehicle EXCEPT ![t] = v]
        /\ tLimit' = [tLimit EXCEPT ![t] = l]
    /\ raised' = [raised EXCEPT ![t] = "none"]
    /\ pc' = [pc EXCEPT ![t] = "perform"]
    /\ calls' = calls + 1
    /\ UNCHANGED <<mainVars, tId, recVars, regVars, reported>>

NextApi ==
    \/ \E t \in Threads : ApiConstruct(t)
    \/ \E t \in Threads : ApiCall(t)
    \/ \E t \in Threads : PendingHandle(t)
    \/ \E t \in Threads : InProgressHandle(t)
    \/ \E t \in Threads : CompletedHandle(t)

SpecApi == InitApi /\ [][NextApi]_vars

\* ------------------------------------------------------------------- claims

\* C1: a record that performTest has driven to Completed stores the verdict
\* (emissionLevel <= legalLimit), emissionLevel being what getEmissionLevel
\* returned for the vehicle: true below the limit, true at the limit, false
\* above it.
C1_VerdictIsInclusiveComparison ==
    \A t \in Threads :
        state[t] = "Completed" =>
            /\ evalCount[t] = 1
            /\ emissionLevel[t] = getEmissionLevel(vehicles[t])
            /\ tLimit[t] = legalLimit
            /\ (emissionLevel[t] < legalLimit => complianceStatus[t] = TRUE)
            /\ (emissionLevel[t] = legalLimit => complianceStatus[t] = TRUE)
            /\ (emissionLevel[t] > legalLimit => complianceStatus[t] = FALSE)

\* C1 witness: one record completed exactly at the limit with verdict true,
\* another above the limit with verdict false
C1_BoundaryAndAbove ==
    \E t, u \in Threads :
        /\ state[t] = "Completed" /\ state[u] = "Completed"
        /\ emissionLevel[t] = legalLimit /\ complianceStatus[t] = TRUE
        /\ emissionLevel[u] > legalLimit /\ complianceStatus[u] = FALSE

\* C2: the state of a record changes only by construction into Pending, by
\* Pending -> InProgress and by InProgress -> Completed: nothing skips
\* InProgress, nothing moves backwards, nothing leaves Completed.
C2_OnlyLegalTransitions ==
    [][\A t \in Threads :
          state'[t] # state[t] =>
              <<state[t], state'[t]>> \in {<<"none", "Pending">>,
                                          <<"Pending", "InProgress">>,
                                          <<"InProgress", "Completed">>}]_vars

\* C2 witness: a record that went through a failed evaluation in InProgress,
\* completed on a later call and was then called once more
C2_CompletedAfterRetry ==
    \E t \in Threads :
        /\ state[t] = "Completed"
        /\ evalCount[t] = 2
        /\ alreadyCompleted[t] = 1

\* C3: when getEmissionLevel returns a negative value, performTest throws
\* std::invalid_argument to runTest, the record stays InProgress for the rest
\* of the run, setComplianceStatus is never called and the stored verdict is
\* still the constructor's.
C3_NegativeLevelFails ==
    \A t \in Threads :
        (evalCount[t] > 0 /\ emissionLevel[t] < 0) =>
            /\ pc[t] \in {"thrown", "done"}
            /\ raised[t] = "invalid_argument"
            /\ state[t] = "InProgress"
            /\ setCount[t] = 0
            /\ complianceStatus[t] = FALSE

\* C3 witness: a thread whose vehicle has a negative level has finished after
\* the exception, next to a thread that completed
C3_FailedThreadDone ==
    \E t, u \in Threads :
        /\ pc[t] = "done" /\ emissionLevel[t] < 0 /\ evalCount[t] = 1
        /\ raised[t] = "invalid_argument"
        /\ state[u] = "Completed"

\* C4: performTest on a Completed record, with any vehicle and any limit,
\* leaves the state Completed and the verdict as stored, does not evaluate
\* getEmissionLevel and throws nothing.
C4_CompletedIsIdempotent ==
    [][\A t \in Threads :
          state[t] = "Completed" =>
              /\ state'[t] = "Completed"
              /\ complianceStatus'[t] = complianceStatus[t]
              /\ evalCount'[t] = evalCount[t]
              /\ setCount'[t] = setCount[t]
              /\ raised'[t] = "none"
              /\ pc'[t] # "thrown"]_vars

\* C4 witness: two further calls on a Completed record have returned, the
\* last with a vehicle of negative level, and one of the arguments used
\* would have given the other verdict
C4_RepeatedCallsReturned ==
    \E t \in Threads :
        /\ state[t] = "Completed"
        /\ alreadyCompleted[t] = 2
        /\ pc[t] = "returned"
        /\ getEmissionLevel(tVehicle[t]) < 0
        /\ complianceStatus[t] # (getEmissionLevel(tVehicle[t]) <= tLimit[t])

\* C5: complianceStatus is assigned at most once in the life of a record, in
\* the step that moves it from InProgress to Completed, and in no other step.
C5_VerdictWrittenOnce ==
    [][\A t \in Threads :
          (setCount'[t] # setCount[t]
             \/ complianceStatus'[t] # complianceStatus[t]) =>
              /\ state[t] = "InProgress"
              /\ state'[t] = "Completed"
              /\ setCount[t] = 0
              /\ setCount'[t] = 1]_vars

\* C5 witness: the verdict was written once, after an evaluation in
\* InProgress that wrote nothing, and a later call on the completed record
\* wrote nothing either
C5_WrittenOnceAmongThreeCalls ==
    \E t \in Threads :
        /\ setCount[t] = 1
        /\ evalCount[t] = 2
        /\ alreadyCompleted[t] = 1
        /\ complianceStatus[t] = TRUE

\* the threads whose vehicle has a negative emission level
Failing == {t \in 1..Len(vehicles) : getEmissionLevel(vehicles[t]) < 0}

\* the threads whose vehicle has a non-negative emission level
Passing == (1..Len(vehicles)) \ Failing

\* main is past the join loop
AllJoined == mainpc \in {"menu", "exit"}

\* C6: once all threads are joined the registry holds one entry per vehicle
\* with a non-negative level and nothing else: N entries when no level is
\* negative, N minus the number of negative levels (fewer than N) otherwise.
C6_OneEntryPerSuccessfulTest ==
    AllJoined =>
        /\ DOMAIN testResults = {MakeId(t) : t \in Passing}
        /\ Cardinality(DOMAIN testResults)
               = Len(vehicles) - Cardinality(Failing)
        /\ (Failing = {} => Cardinality(DOMAIN testResults) = Len(vehicles))
        /\ (Failing # {} => Cardinality(DOMAIN testResults) < Len(vehicles))

\* C6 witness: after the join of a fleet with one failing vehicle and at
\* least one passing vehicle
C6_JoinedWithOneFailure ==
    /\ mainpc = "menu"
    /\ Cardinality(Failing) = 1
    /\ Cardinality(DOMAIN testResults) = Len(vehicles) - 1
    /\ Len(vehicles) >= 2

\* C7: a thread whose performTest threw catches the exception in runTest and
\* reports it, and its identifier is a key of the registry at no point of the
\* run; the identifier of a vehicle with a negative level is never a key.
C7_NoEntryForFailedTest ==
    /\ \A t \in Threads :
          raised[t] # "none" =>
              /\ tId[t] \notin DOMAIN testResults
              /\ pc[t] \in {"thrown", "done"}
              /\ (pc[t] = "done" => reported[t] = "Invalid argument")
    /\ \A t \in Failing : MakeId(t) \notin DOMAIN testResults

\* C7 witness: after the join, a failed test is reported and absent from a
\* registry that holds another vehicle's entry
C7_FailedAbsentAfterJoin ==
    /\ mainpc = "menu"
    /\ testResults # EmptyMap
    /\ \E t \in Threads :
          /\ raised[t] = "invalid_argument"
          /\ reported[t] = "Invalid argument"
          /\ tId[t] \notin DOMAIN testResults

\* the thread is executing the registry insert of runTest
Inserting(t) == pc[t] \in {"locked", "insert"}

\* C8: at most one thread executes the registry insert at a time, a thread
\* does so only while it holds resultMutex, and the map an insert has read is
\* still the registry when it writes (no update is lost): every thread past
\* its insert has its entry.
C8_InsertsAreMutuallyExclusive ==
    /\ \A t, u \in Threads : (Inserting(t) /\ Inserting(u)) => t = u
    /\ \A t \in Threads :
          pc[t] \in {"locked", "insert", "unlock"} => resultMutex = t
    /\ \A t \in Threads : pc[t] = "insert" => snapshot[t] = testResults
    /\ \A t \in Threads :
          (pc[t] \in {"unlock", "done"} /\ state[t] = "Completed") =>
              /\ tId[t] \in DOMAIN testResults
              /\ testResults[tId[t]] = complianceStatus[t]

\* C8 witness: one thread is inside its insert while another, whose test has
\* completed, waits for the mutex, and the registry already holds an entry
C8_InsertWhileAnotherWaits ==
    \E t, u \in Threads :
        /\ t # u
        /\ pc[t] = "insert"
        /\ pc[u] = "returned"
        /\ testResults # EmptyMap

\* C9: a menu command prints (and so the registry is read by main) only when
\* every runTest thread has terminated, and once the join loop is over the
\* registry never changes.
C9_ReadOnlyAfterJoin ==
    [][/\ (out' # out => \A t \in Threads : pc[t] = "done")
       /\ (AllJoined => testResults' = testResults)]_vars

\* C9 witness: the menu has printed the registry of a run of at least two
\* vehicles, one of them failed
C9_ResultsViewed ==
    /\ out.cmd = "view"
    /\ out.shown = testResults
    /\ Len(vehicles) >= 2
    /\ Failing # {}
    /\ testResults # EmptyMap

\* C10: in a fleet with failing vehicles, once the run is over every other
\* vehicle's record is Completed and its entry (identifier, emissionLevel <=
\* legalLimit) is in the registry; the run is over only after every thread has
\* finished; and the entry of a finished test stays as written whatever the
\* other threads do.
C10_FailureIsIsolated ==
    Failing # {} =>
        /\ AllJoined =>
              /\ \A t \in Threads : pc[t] = "done"
              /\ \A t \in Passing :
                    /\ state[t] = "Completed"
                    /\ MakeId(t) \in DOMAIN testResults
                    /\ testResults[MakeId(t)]
                           = (getEmissionLevel(vehicles[t]) <= legalLimit)
        /\ \A t \in Passing :
              pc[t] = "done" =>
                  /\ MakeId(t) \in DOMAIN testResults
                  /\ testResults[MakeId(t)]
                         = (getEmissionLevel(vehicles[t]) <= legalLimit)

\* C10 witness: main has reached the menu; the first vehicle's test failed
\* and was reported, the second vehicle's entry is in the registry
C10_PassingAfterFailure ==
    /\ mainpc = "menu"
    /\ Len(vehicles) >= 2
    /\ 1 \in Failing
    /\ 2 \in Passing
    /\ reported[1] = "Invalid argument"
    /\ MakeId(2) \in DOMAIN testResults

\* main is past the join loop, whatever the menu has done since
AfterJoin == mainpc \in {"menu", "exit", "terminated"}

\* "Vehicle_1" .. "Vehicle_9" written out
NthId(i) ==
    Prefix \o <<CASE i = 1 -> "1" [] i = 2 -> "2" [] i = 3 -> "3" [] i = 4 -> "4"
                  [] i = 5 -> "5" [] i = 6 -> "6" [] i = 7 -> "7" [] i = 8 -> "8"
                  [] i = 9 -> "9">>

\* C11: for the fleet of main (gas 2000, electric 50, gas 1500) and the limit
\* 180, the registry after the join is {Vehicle_1 -> false, Vehicle_2 -> true,
\* Vehicle_3 -> true} under every interleaving of the three threads.
C11_MainFleetRegistry ==
    (vehicles = <<GasVehicle(2000), ElectricVehicle(50), GasVehicle(1500)>>
        /\ legalLimit = 180 /\ AfterJoin) =>
        /\ DOMAIN testResults = {NthId(1), NthId(2), NthId(3)}
        /\ testResults[NthId(1)] = FALSE
        /\ testResults[NthId(2)] = TRUE
        /\ testResults[NthId(3)] = TRUE

\* C11 witness: the menu has printed the three entries of the fleet of main
C11_MainFleetViewed ==
    /\ vehicles = MainFleet
    /\ legalLimit = MainLegalLimit
    /\ out.cmd = "view"
    /\ Cardinality(DOMAIN out.shown) = 3

\* the identifiers follow the input order and each entry is the verdict of
\* the vehicle at the position its identifier names
IdsFollowInputOrder ==
    /\ \A t \in Threads : pc[t] # "unborn" <=> t <= Len(testThreads)
    /\ \A t \in Threads :
          IF pc[t] = "unborn"
          THEN tId[t] = <<>>
          ELSE tId[t] = NthId(t) /\ tVehicle[t] = vehicles[t]
    /\ \A t, u \in Threads :
          (pc[t] # "unborn" /\ pc[u] # "unborn" /\ t # u) => tId[t] # tId[u]
    /\ \A k \in DOMAIN testResults :
          \E i \in 1..Len(vehicles) :
              /\ k = NthId(i)
              /\ testResults[k] = (getEmissionLevel(vehicles[i]) <= legalLimit)

\* C12 as stated: the vehicle at position i is tested under "Vehicle_i", the
\* identifiers are pairwise distinct, the entry under "Vehicle_i" is the
\* verdict of the i-th vehicle, and every identifier is assigned before any
\* thread runs.
C12_AllIdsAssignedBeforeAnyThreadRuns ==
    /\ IdsFollowInputOrder
    /\ \A t \in Threads :
          pc[t] \notin {"unborn", "start"} => Len(testThreads) = Len(vehicles)

\* C12 amended: the vehicle at position i is tested under "Vehicle_i"; main
\* assigns each identifier, in input order, when it starts the thread of that
\* vehicle, so before that thread runs (threads of earlier vehicles may be
\* running already); the identifiers are pairwise distinct and the entry
\* under "Vehicle_i" is the verdict of the i-th vehicle, whatever order the
\* threads run in.
C12_IdAssignedBeforeItsThreadRuns ==
    /\ IdsFollowInputOrder
    /\ \A t \in Threads :
          pc[t] \notin {"unborn", "start"} =>
              /\ t <= Len(testThreads)
              /\ vehicleID > t
              /\ tId[t] = NthId(t)

\* C12 witness: the second vehicle's entry is written while the first
\* vehicle's thread has not run yet, and the two vehicles have different
\* verdicts
C12_SecondWrittenBeforeFirstRuns ==
    /\ Len(vehicles) >= 2
    /\ pc[1] = "start"
    /\ NthId(2) \in DOMAIN testResults
    /\ testResults[NthId(2)] # (getEmissionLevel(vehicles[1]) <= legalLimit)

\* a started thread has finished: its record is Completed and its entry
\* written, or its record is InProgress and its failure reported
Finished(t) ==
    /\ pc[t] = "done"
    /\ resultMutex # t
    /\ \/ state[t] = "Completed" /\ tId[t] \in DOMAIN testResults
       \/ state[t] = "InProgress" /\ reported[t] # "none"

\* C13: under fair scheduling every runTest thread is started and finishes,
\* with its record Completed and its entry written or with its failure
\* reported; none stays in Pending or InProgress or waits for resultMutex
\* forever; and the join loop of main completes.
C13_EveryExecutionFinishes ==
    <>[](AfterJoin /\ \A t \in Threads : Finished(t))

\* C13 witness: a thread whose test has completed waits for resultMutex,
\* which another thread holds after its insert, while main waits in join
C13_WaitingForTheMutex ==
    \E t, u \in Threads :
        /\ pc[t] = "returned" /\ pc[u] = "unlock" /\ resultMutex = u
        /\ mainpc = "join"

\* C14: the Electric rule returns 0 for every capacity, negative and zero
\* included; so the test of a vehicle that uses it never throws, ends in
\* Completed, and its verdict is true whenever the legal limit is >= 0.
C14_ElectricAlwaysPasses ==
    \A t \in Threads :
        (pc[t] # "unborn" /\ tVehicle[t].strategy = "ElectricEmissionStrategy") =>
            /\ raised[t] = "none"
            /\ reported[t] = "none"
            /\ pc[t] # "thrown"
            /\ (evalCount[t] > 0 =>
                   /\ emissionLevel[t] = 0
                   /\ state[t] = "Completed"
                   /\ (legalLimit >= 0 => complianceStatus[t] = TRUE))
            /\ (pc[t] = "done" =>
                   /\ state[t] = "Completed"
                   /\ tId[t] \in DOMAIN testResults
                   /\ (legalLimit >= 0 => testResults[tId[t]] = TRUE))

\* C14 witness: an electric vehicle of negative capacity and one of capacity
\* zero have both passed at the legal limit 0
C14_NegativeCapacityPasses ==
    \E t, u \in Threads :
        /\ tVehicle[t].type = "Electric" /\ tVehicle[t].param < 0
        /\ tVehicle[u].type = "Electric" /\ tVehicle[u].param = 0
        /\ legalLimit = 0
        /\ pc[t] = "done" /\ pc[u] = "done"
        /\ complianceStatus[t] = TRUE /\ complianceStatus[u] = TRUE

\* the characters of an identifier after its first eight
Suffix(s) == SubSeq(s, Len(Prefix) + 1, Len(s))

\* a number in decimal: an optional minus sign and then digits only
Numeric(s) ==
    LET ds == IF s # <<>> /\ Head(s) = "-" THEN Tail(s) ELSE s
    IN  ds # <<>> /\ \A i \in 1..Len(ds) : IsDigit(ds[i])

\* "Vehicle_" followed by a number
WellFormed(s) ==
    /\ Len(s) > Len(Prefix)
    /\ SubSeq(s, 1, Len(Prefix)) = Prefix
    /\ Numeric(Suffix(s))

\* the last menu command was choice 2, 'Check Vehicle Details'
DetailsQueried == out.cmd \in {"details", "Invalid Vehicle ID.", "terminate"}

\* C15: an identifier that is no valid vehicle reference (shorter than the
\* prefix "Vehicle_", wrong prefix, empty or non-numeric suffix) given to
\* 'Check Vehicle Details' gets a message, the program goes back to the menu,
\* it never terminates abnormally and never displays a vehicle.
C15_MalformedIdIsReported ==
    (DetailsQueried /\ ~WellFormed(out.input)) =>
        /\ out.cmd = "Invalid Vehicle ID."
        /\ mainpc \in {"menu", "exit"}

\* C16: "Vehicle_k" for a k that is the position of no vehicle (k < 1 or
\* k > number of vehicles) is reported as invalid, displays no vehicle and is
\* not fatal: the menu goes on.  (The identifiers typed carry no leading
\* zeros, so a submitted identifier is one of Vehicle_1 .. Vehicle_N.)
C16_UnknownIdIsReported ==
    (/\ DetailsQueried
     /\ WellFormed(out.input)
     /\ \A i \in 1..Len(vehicles) : out.input # NthId(i)) =>
        /\ out.cmd = "Invalid Vehicle ID."
        /\ mainpc \in {"menu", "exit"}

\* the fields of the record of thread t
Record(t) == <<state[t], complianceStatus[t], evalCount[t], setCount[t]>>

\* C17: one performTest call on a Pending record runs both transitions: once
\* it has returned the record is Completed, once it has thrown the record is
\* InProgress, and a record is never left Pending; between the step to
\* InProgress and the evaluation nothing acts on the record: the next change
\* of a record in InProgress inside the call is the evaluation, made by the
\* thread that owns it.
C17_CallRunsBothTransitions ==
    /\ [](\A t \in Threads :
             /\ pc[t] \in {"returned", "locked", "insert", "unlock"} =>
                    state[t] = "Completed"
             /\ pc[t] = "thrown" => state[t] = "InProgress"
             /\ pc[t] = "done" =>
                    state[t] = (IF raised[t] = "none" THEN "Completed"
                                ELSE "InProgress")
             /\ state[t] = "Pending" => pc[t] = "perform")
    /\ [][\A t \in Threads :
             (pc[t] = "perform" /\ state[t] = "InProgress") =>
                 \/ Record(t)' = Record(t) /\ pc'[t] = pc[t]
                 \/ /\ evalCount'[t] = evalCount[t] + 1
                    /\ pc'[t] \in {"returned", "thrown"}]_vars

\* C17 witness: one call has returned with its record Completed, and another
\* call has thrown with its record InProgress
C17_ReturnedAndThrown ==
    \E t, w \in Threads :
        /\ pc[t] = "returned" /\ state[t] = "Completed"
        /\ pc[w] = "thrown" /\ state[w] = "InProgress"

\* C18: an identifier is a key of the registry only if its record is
\* Completed, and the value under it is that record's complianceStatus, set
\* by the evaluation; the constructor's false of a record still Pending or
\* InProgress is never in the registry.
C18_RegistryHoldsCompletedVerdicts ==
    /\ \A k \in DOMAIN testResults :
          \E t \in Threads :
              /\ tId[t] = k
              /\ state[t] = "Completed"
              /\ setCount[t] = 1
              /\ testResults[k] = complianceStatus[t]
    /\ \A t \in Threads :
          state[t] \in {"none", "Pending", "InProgress"} =>
              tId[t] \notin DOMAIN testResults

\* C18 witness: the registry holds the true verdict of a completed record
\* while a failed record sits InProgress with the constructor's false and no
\* entry
C18_DefaultFalseNotCopied ==
    \E t, w \in Threads :
        /\ tId[t] \in DOMAIN testResults /\ testResults[tId[t]] = TRUE
        /\ state[w] = "InProgress" /\ pc[w] = "done"
        /\ complianceStatus[w] = FALSE
        /\ tId[w] \notin DOMAIN testResults

\* C19: a thread holds resultMutex exactly from its lock to the end of its
\* insert: it takes it only after performTest has returned normally, never
\* while evaluating, never on an error path, and does not finish holding it;
\* and whenever some started thread has not finished, some started thread can
\* take a step (no deadlock).
C19_LockHeldOnlyAroundInsert ==
    /\ resultMutex \in Threads \cup {0}
    /\ \A t \in Threads :
          resultMutex = t <=> pc[t] \in {"locked", "insert", "unlock"}
    /\ \A t \in Threads :
          resultMutex = t =>
              /\ state[t] = "Completed"
              /\ raised[t] = "none"
              /\ evalCount[t] = 1
    /\ \A t \in Threads :
          /\ pc[t] = "locked" => tId[t] \notin DOMAIN testResults
          /\ pc[t] = "unlock" => tId[t] \in DOMAIN testResults
    /\ (\E t \in Threads : pc[t] \notin {"unborn", "done"}) =>
          \E t \in Threads : ENABLED ThreadNext(t)

\* C19 witness: one thread holds the mutex before its insert while two
\* others, their tests completed, wait for it
C19_TwoThreadsWait ==
    \E t, u, w \in Threads :
        /\ u # w
        /\ pc[t] = "locked" /\ resultMutex = t
        /\ pc[u] = "returned" /\ pc[w] = "returned"

\* C20: during a run the registry only grows: an entry once written stays
\* with its value, and every change of the registry is the insert of one
\* thread under its own identifier, which was no key before (so each
\* identifier is written at most once).
C20_RegistryOnlyGrows ==
    [][/\ \A k \in DOMAIN testResults :
             k \in DOMAIN testResults' /\ testResults'[k] = testResults[k]
       /\ testResults' # testResults =>
             \E t \in Threads :
                 /\ pc[t] = "insert" /\ pc'[t] = "unlock"
                 /\ tId[t] \notin DOMAIN testResults
                 /\ DOMAIN testResults' = DOMAIN testResults \cup {tId[t]}
                 /\ testResults'[tId[t]] = complianceStatus[t]]_vars

\* C20 witness: the registry holds two entries of different values and a
\* third thread is in the middle of its insert
C20_ThirdInsertInProgress ==
    /\ Cardinality(DOMAIN testResults) = 2
    /\ \E k, l \in DOMAIN testResults : testResults[k] # testResults[l]
    /\ \E t \in Threads : pc[t] = "insert"

====
